---- MODULE Spec2Model ----
(***************************************************************************)
(* The worker pool of the traffic API: WorkerPool (src/worker_pool.py),    *)
(* worker_loop (src/traffic_worker.py), the two request handlers that      *)
(* dispatch to it and collect from it, process_locations and get_job, and  *)
(* the two endpoints that inspect it, health_check and readiness_probe     *)
(* (src/main.py).                                                          *)
(*                                                                         *)
(* Processes: the API process (one asyncio event loop running the request  *)
(* handlers and the lifespan's POOL.start()/POOL.stop(), plus executor     *)
(* threads blocked in POOL.get_result) and num_workers worker processes.   *)
(* The two multiprocessing queues are FIFO sequences.                      *)
(***************************************************************************)
EXTENDS Integers, Sequences, FiniteSets, TLC

\* ------------------------------------------------------------- bounds
\* Request handlers that ever run.
MaxHandlers == 2
\* Jobs dispatched by all handlers together.
MaxJobs == 3
\* Calls of WorkerPool.start() on the one pool object.
MaxStarts == 2

\* ------------------------------------------------- program constants
\* WorkerPool(num_workers=mp.cpu_count() * 2): the configured size.
num_workers == 3
\* "Max 20 locations per request".
MaxLocations == 20

Workers == 1..num_workers
Handlers == 1..MaxHandlers

\* The payload handler h submits at position i of its request: request
\* payloads are opaque to the pool; distinct ones make every job traceable.
Loc(h, i) == h * 100 + i
Owner(loc) == loc \div 100

\* job_queue.put("STOP") / job_queue.put((idx, loc_dict))
StopMsg == [kind |-> "STOP"]
JobMsg(idx, loc) == [kind |-> "job", idx |-> idx, location |-> loc]

\* analyze_location_traffic: returns a structured result for the location,
\* or raises.
Analyze(loc) == [score |-> loc]
\* str(e) of the exception a failed analysis raised.
ErrMsg(loc) == "error " \o ToString(loc)
\* Python's None, as process_locations tests for it.
None == [none |-> TRUE]

\* (idx, {"ok": True, "location": location, "result": result})
SuccessMsg(job) ==
  [idx |-> job.idx, ok |-> TRUE, location |-> job.location,
   result |-> Analyze(job.location)]
\* (idx, {"ok": False, "location": location, "error": str(e), ...})
FailureMsg(job) ==
  [idx |-> job.idx, ok |-> FALSE, location |-> job.location,
   error |-> ErrMsg(job.location)]

NoJob == [kind |-> "none"]
NoResponse == [status |-> 0]
\* No poll of the endpoint has been answered yet.
NoHealth == [status |-> "none"]

VARIABLES
  phase,        \* lifespan: "new", "started", "stopping", "stopped"
  processes,    \* POOL.processes: the list of worker handles
  job_queue,    \* POOL.job_queue
  result_queue, \* POOL.result_queue
  stopPut,      \* stop(): sentinels enqueued so far
  joined,       \* stop(): handles of POOL.processes joined so far
  wstate,       \* worker: "NONE","INIT","READY","RUN","SHUTDOWN","EXITED",
                \* or dead without cleanup: "FAILED" (in INIT), "KILLED" (in RUN)
  wjob,         \* worker: the job it is executing
  stopsTaken,   \* history: sentinels each worker dequeued
  acquired,     \* worker: times it began to acquire its browser session
  released,     \* worker: times it closed context, browser and Playwright
  hpc,          \* handler: "idle","dispatch","collect","done","rejected"
  hkind,        \* handler: "batch" (process_locations), "single" (get_job)
  hM,           \* handler: len(payload.locations)
  sent,         \* handler: jobs dispatched so far
  got,          \* handler: get_result calls that returned
  results,      \* handler: the dict results (idx -> res)
  errors,       \* handler: the list errors
  recv,         \* history: what each get_result of the handler returned
  response,     \* handler: what the caller receives
  nDispatched,  \* history: jobs ever put on job_queue
  nPushed,      \* history: results ever put on result_queue
  health,       \* what the last GET /health reported about the pool
  ready         \* what the last GET /health/ready answered

poolVars == <<phase, processes, stopPut, joined>>
queueVars == <<job_queue, result_queue>>
workerVars == <<wstate, wjob, stopsTaken, acquired, released>>
handlerVars == <<hpc, hkind, hM, sent, got, results, errors, recv, response>>
histVars == <<nDispatched, nPushed>>
pollVars == <<health, ready>>
vars == <<poolVars, queueVars, workerVars, handlerVars, histVars, pollVars>>

\* ------------------------------------------------------------ helpers
RECURSIVE SortedSeq(_)
\* sorted(): the keys of a dict in ascending order.
SortedSeq(S) ==
  IF S = {} THEN <<>>
  ELSE LET m == CHOOSE x \in S : \A y \in S : x <= y
       IN  <<m>> \o SortedSeq(S \ {m})

RECURSIVE Join(_)
\* "\n".join(errors)
Join(msgs) ==
  IF msgs = <<>> THEN ""
  ELSE IF Len(msgs) = 1 THEN msgs[1]
  ELSE msgs[1] \o "\n" \o Join(Tail(msgs))

\* results[idx] = res
DictPut(d, k, v) == [x \in (DOMAIN d) \cup {k} |-> IF x = k THEN v ELSE d[x]]

RECURSIVE SelectResults(_, _)
\* [value for _, value in sorted(results.items())
\*  if value and value.get("result") is not None], over the sorted keys.
SelectResults(d, keys) ==
  IF keys = <<>> THEN <<>>
  ELSE LET value == d[Head(keys)]
           rest == SelectResults(d, Tail(keys))
       IN  IF value.result # None THEN <<value>> \o rest ELSE rest

RECURSIVE Reversed(_)
Reversed(q) == IF q = <<>> THEN <<>> ELSE Append(Reversed(Tail(q)), Head(q))

\* Mutant: sorted(..., reverse=True).
OrderedResults_Descending(d) == SelectResults(d, Reversed(SortedSeq(DOMAIN d)))

OrderedResults(d) == SelectResults(d, SortedSeq(DOMAIN d))

\* Mutant: completed counts every submitted location.
BatchResponse_CountsFailures(m, d, errs) ==
  LET ordered == OrderedResults(d)
  IN  [status |-> 200,
       locations_count |-> m,
       completed |-> m,
       result |-> [i \in 1..Len(ordered) |-> ordered[i].result],
       error |-> Join(errs)]

\* MultiLocationResponse(locations_count=..., completed=..., result=...,
\* error=...)
BatchResponse(m, d, errs) ==
  LET ordered == OrderedResults(d)
  IN  [status |-> 200,
       locations_count |-> m,
       completed |-> Len(ordered),
       result |-> [i \in 1..Len(ordered) |-> ordered[i].result],
       error |-> Join(errs)]

\* HTTPException(status_code=..., detail=...)
HttpError(code, detail) == [status |-> code, detail |-> detail]

\* LocationResponse(result=result["result"], ...)
SingleResponse(res) == [status |-> 200, result |-> res.result]

\* `raise` with no active exception: RuntimeError, caught by the handler's
\* own except clause and turned into a 500.
SingleFailure(res) ==
  HttpError(500, "Processing-one failed: " \o "No active exception to reraise")

\* Mutant: the empty request is not turned away.
EmptyBatch_Accepted(m) == FALSE

\* if not payload.locations
EmptyBatch(m) == m = 0
\* Mutant: the limit is checked one too high.
OversizeBatch_OffByOne(m) == m > MaxLocations + 1

\* if len(payload.locations) > 20
OversizeBatch(m) == m > MaxLocations
\* Mutant: range(len(payload.locations) + 1).
Retrievals_OneMore(m) == m + 1

\* Mutant: range(2 * len(payload.locations)).
Retrievals_Twice(m) == 2 * m

\* for _ in range(len(payload.locations)): the retrievals of a batch
Retrievals(m) == m
\* Mutants: range(self.num_workers + 1), range(self.num_workers - 1).
NumSentinels_OneMore == num_workers + 1
NumSentinels_OneShort == num_workers - 1

\* for _ in range(self.num_workers): self.job_queue.put("STOP")
NumSentinels == num_workers
\* Mutant: the failure ends the worker process.
AfterFailure_Dies == "EXITED"
\* Mutant: the failure breaks out of the loop, to the cleanup.
AfterFailure_ShutsDown == "SHUTDOWN"

\* The worker after a caught job failure: back at the head of while True.
AfterFailure == "READY"

\* No request handler is inside its (await-free) dispatch loop: the event
\* loop is free to run another handler or the lifespan's shutdown.
LoopFree == \A h \in Handlers : hpc[h] # "dispatch"

\* Handlers are numbered in the order their requests arrive.
NextToArrive(h) == hpc[h] = "idle" /\ \A g \in Handlers : g < h => hpc[g] # "idle"

\* ---------------------------------------------------------------- Init
Init ==
  /\ phase = "new"
  /\ processes = <<>>
  /\ job_queue = <<>>
  /\ result_queue = <<>>
  /\ stopPut = 0
  /\ joined = 0
  /\ wstate = [w \in Workers |-> "NONE"]
  /\ wjob = [w \in Workers |-> NoJob]
  /\ stopsTaken = [w \in Workers |-> 0]
  /\ acquired = [w \in Workers |-> 0]
  /\ released = [w \in Workers |-> 0]
  /\ hpc = [h \in Handlers |-> "idle"]
  /\ hkind = [h \in Handlers |-> "batch"]
  /\ hM = [h \in Handlers |-> 0]
  /\ sent = [h \in Handlers |-> 0]
  /\ got = [h \in Handlers |-> 0]
  /\ results = [h \in Handlers |-> <<>>]
  /\ errors = [h \in Handlers |-> <<>>]
  /\ recv = [h \in Handlers |-> <<>>]
  /\ response = [h \in Handlers |-> NoResponse]
  /\ nDispatched = 0
  /\ nPushed = 0
  /\ health = NoHealth
  /\ ready = NoHealth

\* ------------------------------------------------------- pool manager
\* WorkerPool.start: spawn num_workers processes and append their handles.
Start ==
  /\ phase = "new"
  /\ phase' = "started"
  /\ processes' = processes \o [i \in 1..num_workers |-> i]
  /\ wstate' = [w \in Workers |-> "INIT"]
  /\ UNCHANGED <<stopPut, joined, queueVars, wjob, stopsTaken, acquired,
                 released, handlerVars, histVars, pollVars>>

\* WorkerPool.start called again, on a pool that is started or was stopped:
\* num_workers more processes are spawned on the same two queues and their
\* handles appended to the same list, which start() never clears. The loop
\* counters of a stop() that has returned are gone.
StartAgain ==
  /\ phase \in {"started", "stopped"}
  /\ LoopFree
  /\ Len(processes) < MaxStarts * num_workers
  /\ phase' = "started"
  /\ stopPut' = 0
  /\ joined' = 0
  /\ LET old == Len(processes)
         new == (old + 1)..(old + num_workers)
         grown(f, v) == [w \in (DOMAIN f) \cup new |->
                          IF w \in DOMAIN f THEN f[w] ELSE v]
     IN  /\ processes' = processes \o [i \in 1..num_workers |-> old + i]
         /\ wstate' = grown(wstate, "INIT")
         /\ wjob' = grown(wjob, NoJob)
         /\ stopsTaken' = grown(stopsTaken, 0)
         /\ acquired' = grown(acquired, 0)
         /\ released' = grown(released, 0)
  /\ UNCHANGED <<queueVars, handlerVars, histVars, pollVars>>

\* The lifespan's shutdown calls POOL.stop() on the event loop.
StopBegin ==
  /\ phase = "started"
  /\ LoopFree
  /\ phase' = "stopping"
  /\ UNCHANGED <<processes, stopPut, joined, queueVars, workerVars,
                 handlerVars, histVars, pollVars>>

\* Mutant: the sentinels jump the queue.
StopPut_Front ==
  /\ phase = "stopping"
  /\ stopPut < NumSentinels
  /\ job_queue' = <<StopMsg>> \o job_queue
  /\ stopPut' = stopPut + 1
  /\ UNCHANGED <<phase, processes, joined, result_queue, workerVars,
                 handlerVars, histVars, pollVars>>

\* WorkerPool.stop, first loop: one sentinel per iteration.
StopPut ==
  /\ phase = "stopping"
  /\ stopPut < NumSentinels
  /\ job_queue' = Append(job_queue, StopMsg)
  /\ stopPut' = stopPut + 1
  /\ UNCHANGED <<phase, processes, joined, result_queue, workerVars,
                 handlerVars, histVars, pollVars>>

\* The process of worker w has ended: it returned from worker_loop, or it
\* died in INIT or in RUN.
Ended(w) == wstate[w] \in {"EXITED", "FAILED", "KILLED"}

\* Mutant: the join waits for the worker to report a clean exit.
StopJoin_OnlyExited ==
  /\ phase = "stopping"
  /\ stopPut = NumSentinels
  /\ joined < Len(processes)
  /\ wstate[processes[joined + 1]] = "EXITED"
  /\ joined' = joined + 1
  /\ UNCHANGED <<phase, processes, stopPut, queueVars, workerVars,
                 handlerVars, histVars, pollVars>>

\* Mutant: p.join(timeout=0), which returns whether or not p has ended.
StopJoin_NoWait ==
  /\ phase = "stopping"
  /\ stopPut = NumSentinels
  /\ joined < Len(processes)
  /\ joined' = joined + 1
  /\ UNCHANGED <<phase, processes, stopPut, queueVars, workerVars,
                 handlerVars, histVars, pollVars>>

\* WorkerPool.stop, second loop: p.join() returns once p has ended.
StopJoin ==
  /\ phase = "stopping"
  /\ stopPut = NumSentinels
  /\ joined < Len(processes)
  /\ Ended(processes[joined + 1])
  /\ joined' = joined + 1
  /\ UNCHANGED <<phase, processes, stopPut, queueVars, workerVars,
                 handlerVars, histVars, pollVars>>

\* WorkerPool.stop returns.
StopReturn ==
  /\ phase = "stopping"
  /\ stopPut = NumSentinels
  /\ joined = Len(processes)
  /\ phase' = "stopped"
  /\ UNCHANGED <<processes, stopPut, joined, queueVars, workerVars,
                 handlerVars, histVars, pollVars>>

\* -------------------------------------------------------- worker loop
\* INIT: start Playwright, launch the browser, set up the context.
WorkerInit(w) ==
  /\ wstate[w] = "INIT"
  /\ wstate' = [wstate EXCEPT ![w] = "READY"]
  /\ acquired' = [acquired EXCEPT ![w] = @ + 1]
  /\ UNCHANGED <<poolVars, queueVars, wjob, stopsTaken, released,
                 handlerVars, histVars, pollVars>>

\* READY: job = job_queue.get(); "STOP" breaks out of the loop.
WorkerGet(w) ==
  /\ wstate[w] = "READY"
  /\ job_queue # <<>>
  /\ LET job == Head(job_queue)
     IN  IF job.kind = "STOP"
         THEN /\ wstate' = [wstate EXCEPT ![w] = "SHUTDOWN"]
              /\ stopsTaken' = [stopsTaken EXCEPT ![w] = @ + 1]
              /\ UNCHANGED wjob
         ELSE /\ wstate' = [wstate EXCEPT ![w] = "RUN"]
              /\ wjob' = [wjob EXCEPT ![w] = job]
              /\ UNCHANGED stopsTaken
  /\ job_queue' = Tail(job_queue)
  /\ UNCHANGED <<poolVars, result_queue, acquired, released, handlerVars,
                 histVars, pollVars>>

\* Mutant: the worker goes back for the next job without pushing the
\* result of the one it holds.
WorkerRunOk_Unreported(w) ==
  /\ wstate[w] = "RUN"
  /\ wstate' = [wstate EXCEPT ![w] = "READY"]
  /\ wjob' = [wjob EXCEPT ![w] = NoJob]
  /\ UNCHANGED <<poolVars, queueVars, stopsTaken, acquired, released,
                 handlerVars, histVars, pollVars>>

\* Mutant: a sentinel at the head of the job queue interrupts the job: the
\* worker drops it and shuts down.
WorkerRunOk_Preempted(w) ==
  /\ wstate[w] = "RUN"
  /\ IF job_queue # <<>> /\ Head(job_queue) = StopMsg
     THEN /\ job_queue' = Tail(job_queue)
          /\ wstate' = [wstate EXCEPT ![w] = "SHUTDOWN"]
          /\ stopsTaken' = [stopsTaken EXCEPT ![w] = @ + 1]
          /\ UNCHANGED <<result_queue, nPushed>>
     ELSE /\ result_queue' = Append(result_queue, SuccessMsg(wjob[w]))
          /\ nPushed' = nPushed + 1
          /\ wstate' = [wstate EXCEPT ![w] = "READY"]
          /\ UNCHANGED <<job_queue, stopsTaken>>
  /\ wjob' = [wjob EXCEPT ![w] = NoJob]
  /\ UNCHANGED <<poolVars, acquired, released, handlerVars, nDispatched,
                 pollVars>>

\* RUN: the analysis returned; push the success and loop.
WorkerRunOk(w) ==
  /\ wstate[w] = "RUN"
  /\ result_queue' = Append(result_queue, SuccessMsg(wjob[w]))
  /\ nPushed' = nPushed + 1
  /\ wstate' = [wstate EXCEPT ![w] = "READY"]
  /\ wjob' = [wjob EXCEPT ![w] = NoJob]
  /\ UNCHANGED <<poolVars, job_queue, stopsTaken, acquired, released,
                 handlerVars, nDispatched, pollVars>>

\* (idx, {"ok": True, "location": location, "result": None})
EmptySuccessMsg(job) ==
  [idx |-> job.idx, ok |-> TRUE, location |-> job.location, result |-> None]

\* RUN: the analysis returned without a value; the success is pushed with
\* the result None, the value the filter of process_locations tests for.
WorkerRunNone(w) ==
  /\ wstate[w] = "RUN"
  /\ result_queue' = Append(result_queue, EmptySuccessMsg(wjob[w]))
  /\ nPushed' = nPushed + 1
  /\ wstate' = [wstate EXCEPT ![w] = "READY"]
  /\ wjob' = [wjob EXCEPT ![w] = NoJob]
  /\ UNCHANGED <<poolVars, job_queue, stopsTaken, acquired, released,
                 handlerVars, nDispatched, pollVars>>

\* Mutant: the except clause swallows the failure without pushing it.
WorkerRunFail_Swallowed(w) ==
  /\ wstate[w] = "RUN"
  /\ wstate' = [wstate EXCEPT ![w] = "READY"]
  /\ wjob' = [wjob EXCEPT ![w] = NoJob]
  /\ UNCHANGED <<poolVars, queueVars, stopsTaken, acquired, released,
                 handlerVars, histVars, pollVars>>

\* Mutant: the failed job is reported and put back for another attempt.
WorkerRunFail_Requeued(w) ==
  /\ wstate[w] = "RUN"
  /\ result_queue' = Append(result_queue, FailureMsg(wjob[w]))
  /\ job_queue' = Append(job_queue, wjob[w])
  /\ nPushed' = nPushed + 1
  /\ wstate' = [wstate EXCEPT ![w] = "READY"]
  /\ wjob' = [wjob EXCEPT ![w] = NoJob]
  /\ UNCHANGED <<poolVars, stopsTaken, acquired, released, handlerVars,
                 nDispatched, pollVars>>

\* RUN: the analysis raised; the except clause pushes the failure and the
\* loop goes on.
WorkerRunFail(w) ==
  /\ wstate[w] = "RUN"
  /\ result_queue' = Append(result_queue, FailureMsg(wjob[w]))
  /\ nPushed' = nPushed + 1
  /\ wstate' = [wstate EXCEPT ![w] = AfterFailure]
  /\ wjob' = [wjob EXCEPT ![w] = NoJob]
  /\ UNCHANGED <<poolVars, job_queue, stopsTaken, acquired, released,
                 handlerVars, nDispatched, pollVars>>

\* SHUTDOWN: close context, browser and Playwright; the process ends.
WorkerCleanup(w) ==
  /\ wstate[w] = "SHUTDOWN"
  /\ wstate' = [wstate EXCEPT ![w] = "EXITED"]
  /\ released' = [released EXCEPT ![w] = @ + 1]
  /\ UNCHANGED <<poolVars, queueVars, wjob, stopsTaken, acquired,
                 handlerVars, histVars, pollVars>>

WorkerStep == \E w \in Workers :
  \/ WorkerInit(w)
  \/ WorkerGet(w)
  \/ WorkerRunOk(w)
  \/ WorkerRunFail(w)
  \/ WorkerCleanup(w)

\* ------------------------------------------------- worker process death
\* INIT raises (Playwright fails to start, the browser fails to launch, the
\* context cannot be set up): nothing catches it, asyncio.run re-raises and
\* the process ends. part: Playwright or the browser had been started.
WorkerInitFail(w, part) ==
  /\ wstate[w] = "INIT"
  /\ wstate' = [wstate EXCEPT ![w] = "FAILED"]
  /\ acquired' = [acquired EXCEPT ![w] = IF part THEN @ + 1 ELSE @]
  /\ UNCHANGED <<poolVars, queueVars, wjob, stopsTaken, released,
                 handlerVars, histVars, pollVars>>

\* Mutant: a dying worker first reports its job as failed.
WorkerCrash_Reported(w) ==
  /\ wstate[w] = "RUN"
  /\ result_queue' = Append(result_queue, FailureMsg(wjob[w]))
  /\ nPushed' = nPushed + 1
  /\ wstate' = [wstate EXCEPT ![w] = "KILLED"]
  /\ UNCHANGED <<poolVars, job_queue, wjob, stopsTaken, acquired, released,
                 handlerVars, nDispatched, pollVars>>

\* RUN: the process dies inside the analysis call (it is killed, or
\* something that is not an Exception escapes the try): no result is
\* pushed, the cleanup after the loop is not reached, and the job it held
\* is gone with it.
WorkerCrash(w) ==
  /\ wstate[w] = "RUN"
  /\ wstate' = [wstate EXCEPT ![w] = "KILLED"]
  /\ UNCHANGED <<poolVars, queueVars, wjob, stopsTaken, acquired, released,
                 handlerVars, histVars, pollVars>>

\* Mutant: the except clause of the cleanup re-raises, and the process dies
\* of the exception.
WorkerCleanupFail_Reraised(w) ==
  /\ wstate[w] = "SHUTDOWN"
  /\ wstate' = [wstate EXCEPT ![w] = "FAILED"]
  /\ UNCHANGED <<poolVars, queueVars, wjob, stopsTaken, acquired, released,
                 handlerVars, histVars, pollVars>>

\* SHUTDOWN: context.close() raises; the except clause logs it, the browser
\* and Playwright are not closed, and the process ends.
WorkerCleanupFail(w) ==
  /\ wstate[w] = "SHUTDOWN"
  /\ wstate' = [wstate EXCEPT ![w] = "EXITED"]
  /\ UNCHANGED <<poolVars, queueVars, wjob, stopsTaken, acquired, released,
                 handlerVars, histVars, pollVars>>

FaultStep == \E w \in Workers :
  \/ \E part \in BOOLEAN : WorkerInitFail(w, part)
  \/ WorkerCrash(w)

\* --------------------------------------------------------- health monitor
\* Mutant: a worker counts as alive only once it waits for jobs.
IsAlive_OnlyReady(w) == wstate[w] \in {"READY", "RUN"}

\* p.is_alive(): the process was started and has not ended.
IsAlive(w) == wstate[w] \in {"INIT", "READY", "RUN", "SHUTDOWN"}

\* alive = sum(p.is_alive() for p in POOL.processes)
Alive == Cardinality({i \in 1..Len(processes) : IsAlive(processes[i])})

\* "ok" if alive == worker_count else "degraded"
PoolStatus(alive, worker_count) ==
  IF alive = worker_count THEN "ok" ELSE "degraded"

\* health_status["dependencies"]["worker_pool"]
HealthInfo ==
  [status |-> "healthy",
   workers_expected |-> num_workers,
   workers_alive |-> Alive,
   worker_pool_status |-> PoolStatus(Alive, num_workers),
   job_queue_size |-> Len(job_queue),
   result_queue_size |-> Len(result_queue)]

\* Mutant: the probe is satisfied with one live worker.
ReadyInfo_AnyAlive ==
  IF Alive >= 1
  THEN [status |-> "ready", failed_checks |-> <<>>]
  ELSE [status |-> "not_ready", failed_checks |-> <<"worker_pool">>]

\* readiness_probe, with its database check passing: "ready" unless the
\* worker_pool check fails.
ReadyInfo ==
  IF Alive = num_workers
  THEN [status |-> "ready", failed_checks |-> <<>>]
  ELSE [status |-> "not_ready", failed_checks |-> <<"worker_pool">>]

\* Mutant: the queue depth is measured by emptying the job queue.
HealthCheck_Draining ==
  /\ phase = "started"
  /\ LoopFree
  /\ health' = HealthInfo
  /\ job_queue' = <<>>
  /\ UNCHANGED <<poolVars, result_queue, workerVars, handlerVars, histVars,
                 ready>>

\* GET /health: the worker pool section of health_check.
HealthCheck ==
  /\ phase = "started"
  /\ LoopFree
  /\ health' = HealthInfo
  /\ UNCHANGED <<poolVars, queueVars, workerVars, handlerVars, histVars,
                 ready>>

\* GET /health/ready: the worker pool check of readiness_probe.
ReadinessProbe ==
  /\ phase = "started"
  /\ LoopFree
  /\ ready' = ReadyInfo
  /\ UNCHANGED <<poolVars, queueVars, workerVars, handlerVars, histVars,
                 health>>

\* The response of a poll has been sent: the handler's locals are gone.
PollReturn ==
  /\ health # NoHealth \/ ready # NoHealth
  /\ health' = NoHealth
  /\ ready' = NoHealth
  /\ UNCHANGED <<poolVars, queueVars, workerVars, handlerVars, histVars>>

\* No poll is being answered.
NoPoll == health = NoHealth /\ ready = NoHealth

PollStep == (NoPoll /\ (HealthCheck \/ ReadinessProbe)) \/ PollReturn

\* --------------------------------------- process_locations (a batch)
\* Jobs a new request may still submit within the model's bound.
Budget == MaxJobs - nDispatched

\* Entry of process_locations for a request with m locations: the two
\* checks before the try block.
BatchBegin(h, m) ==
  /\ phase = "started"
  /\ LoopFree
  /\ NextToArrive(h)
  /\ hkind' = [hkind EXCEPT ![h] = "batch"]
  /\ hM' = [hM EXCEPT ![h] = m]
  /\ IF EmptyBatch(m)
     THEN /\ hpc' = [hpc EXCEPT ![h] = "rejected"]
          /\ response' = [response EXCEPT
                            ![h] = HttpError(400, "No locations provided")]
     ELSE IF OversizeBatch(m)
     THEN /\ hpc' = [hpc EXCEPT ![h] = "rejected"]
          /\ response' = [response EXCEPT
                            ![h] = HttpError(400, "Max 20 locations per request")]
     ELSE \* the try block: a dispatch loop over no location ends at once
          /\ hpc' = [hpc EXCEPT ![h] = IF m > 0 THEN "dispatch" ELSE "collect"]
          /\ UNCHANGED response
  /\ UNCHANGED <<poolVars, queueVars, workerVars, sent, got, results, errors,
                 recv, histVars, pollVars>>

\* Mutant: enumerate(payload.locations, 1).
BatchDispatch_OneBased(h) ==
  /\ hpc[h] = "dispatch"
  /\ sent[h] < hM[h]
  /\ job_queue' = Append(job_queue, JobMsg(sent[h] + 1, Loc(h, sent[h])))
  /\ sent' = [sent EXCEPT ![h] = @ + 1]
  /\ nDispatched' = nDispatched + 1
  /\ hpc' = [hpc EXCEPT ![h] = IF sent[h] + 1 = hM[h] THEN "collect" ELSE @]
  /\ UNCHANGED <<poolVars, result_queue, workerVars, hkind, hM, got, results,
                 errors, recv, response, nPushed, pollVars>>

\* One iteration of `for idx, loc in enumerate(payload.locations)`:
\* POOL.dispatch(idx, {...}).
BatchDispatch(h) ==
  /\ hpc[h] = "dispatch"
  /\ sent[h] < hM[h]
  /\ job_queue' = Append(job_queue, JobMsg(sent[h], Loc(h, sent[h])))
  /\ sent' = [sent EXCEPT ![h] = @ + 1]
  /\ nDispatched' = nDispatched + 1
  /\ hpc' = [hpc EXCEPT ![h] = IF sent[h] + 1 = hM[h] THEN "collect" ELSE @]
  /\ UNCHANGED <<poolVars, result_queue, workerVars, hkind, hM, got, results,
                 errors, recv, response, nPushed, pollVars>>

\* Mutant: get_result hands out the newest result.
BatchCollect_Newest(h) ==
  /\ hpc[h] = "collect"
  /\ hkind[h] = "batch"
  /\ got[h] < Retrievals(hM[h])
  /\ result_queue # <<>>
  /\ LET res == result_queue[Len(result_queue)]
     IN  /\ IF res.ok
            THEN /\ results' = [results EXCEPT ![h] = DictPut(@, res.idx, res)]
                 /\ UNCHANGED errors
            ELSE /\ errors' = [errors EXCEPT ![h] = Append(@, res.error)]
                 /\ UNCHANGED results
         /\ recv' = [recv EXCEPT ![h] = Append(@, res)]
  /\ result_queue' = SubSeq(result_queue, 1, Len(result_queue) - 1)
  /\ got' = [got EXCEPT ![h] = @ + 1]
  /\ UNCHANGED <<poolVars, job_queue, workerVars, hpc, hkind, hM, sent,
                 response, histVars, pollVars>>

\* One iteration of the collect loop: POOL.get_result() returned in its
\* executor thread, and the result is filed under results or errors.
BatchCollect(h) ==
  /\ hpc[h] = "collect"
  /\ hkind[h] = "batch"
  /\ got[h] < Retrievals(hM[h])
  /\ result_queue # <<>>
  /\ LET res == Head(result_queue)
     IN  /\ IF res.ok
            THEN /\ results' = [results EXCEPT ![h] = DictPut(@, res.idx, res)]
                 /\ UNCHANGED errors
            ELSE /\ errors' = [errors EXCEPT ![h] = Append(@, res.error)]
                 /\ UNCHANGED results
         /\ recv' = [recv EXCEPT ![h] = Append(@, res)]
  /\ result_queue' = Tail(result_queue)
  /\ got' = [got EXCEPT ![h] = @ + 1]
  /\ UNCHANGED <<poolVars, job_queue, workerVars, hpc, hkind, hM, sent,
                 response, histVars, pollVars>>

\* After the collect loop: order the successes, build and return the
\* response.
BatchRespond(h) ==
  /\ phase = "started"
  /\ hpc[h] = "collect"
  /\ hkind[h] = "batch"
  /\ ~(got[h] < Retrievals(hM[h]))
  /\ response' = [response EXCEPT
                    ![h] = BatchResponse(hM[h], results[h], errors[h])]
  /\ hpc' = [hpc EXCEPT ![h] = "done"]
  /\ UNCHANGED <<poolVars, queueVars, workerVars, hkind, hM, sent, got,
                 results, errors, recv, histVars, pollVars>>

\* -------------------------------------------------- get_job (one job)
\* Entry of get_job: POOL.dispatch(0, {...}).
SingleDispatch(h) ==
  /\ phase = "started"
  /\ LoopFree
  /\ NextToArrive(h)
  /\ Budget >= 1
  /\ hkind' = [hkind EXCEPT ![h] = "single"]
  /\ hM' = [hM EXCEPT ![h] = 1]
  /\ job_queue' = Append(job_queue, JobMsg(0, Loc(h, 0)))
  /\ sent' = [sent EXCEPT ![h] = 1]
  /\ nDispatched' = nDispatched + 1
  /\ hpc' = [hpc EXCEPT ![h] = "collect"]
  /\ UNCHANGED <<poolVars, result_queue, workerVars, got, results, errors,
                 recv, response, nPushed, pollVars>>

\* `_, result = await ... POOL.get_result`: the one retrieval. The local
\* `result` is kept in results[h] under key 0.
SingleCollect(h) ==
  /\ hpc[h] = "collect"
  /\ hkind[h] = "single"
  /\ got[h] = 0
  /\ result_queue # <<>>
  /\ LET res == Head(result_queue)
     IN  /\ results' = [results EXCEPT ![h] = DictPut(@, 0, res)]
         /\ recv' = [recv EXCEPT ![h] = Append(@, res)]
  /\ result_queue' = Tail(result_queue)
  /\ got' = [got EXCEPT ![h] = 1]
  /\ UNCHANGED <<poolVars, job_queue, workerVars, hpc, hkind, hM, sent,
                 errors, response, histVars, pollVars>>

\* `if not result["ok"]: raise`, else the LocationResponse.
SingleRespond(h) ==
  /\ phase = "started"
  /\ hpc[h] = "collect"
  /\ hkind[h] = "single"
  /\ got[h] = 1
  /\ response' = [response EXCEPT
                    ![h] = IF results[h][0].ok
                           THEN SingleResponse(results[h][0])
                           ELSE SingleFailure(results[h][0])]
  /\ hpc' = [hpc EXCEPT ![h] = "done"]
  /\ UNCHANGED <<poolVars, queueVars, workerVars, hkind, hM, sent, got,
                 results, errors, recv, histVars, pollVars>>

\* process_locations: an exception is raised inside the try block after
\* the first dispatch and before the last retrieval (a later dispatch or a
\* get_result raises); the except clause answers 500. Nothing takes back
\* the jobs already dispatched.
BatchAbort(h) ==
  /\ phase = "started"
  /\ hkind[h] = "batch"
  /\ hpc[h] \in {"dispatch", "collect"}
  /\ sent[h] >= 1
  /\ got[h] < hM[h]
  /\ response' = [response EXCEPT
                    ![h] = HttpError(500, "Processing-many failed: error")]
  /\ hpc' = [hpc EXCEPT ![h] = "failed"]
  /\ UNCHANGED <<poolVars, queueVars, workerVars, hkind, hM, sent, got,
                 results, errors, recv, histVars, pollVars>>

\* get_job: get_result raises; the except clause answers 500.
SingleAbort(h) ==
  /\ phase = "started"
  /\ hkind[h] = "single"
  /\ hpc[h] = "collect"
  /\ got[h] = 0
  /\ response' = [response EXCEPT
                    ![h] = HttpError(500, "Processing-one failed: error")]
  /\ hpc' = [hpc EXCEPT ![h] = "failed"]
  /\ UNCHANGED <<poolVars, queueVars, workerVars, hkind, hM, sent, got,
                 results, errors, recv, histVars, pollVars>>

\* The request sizes tried: every size the bound leaves room for, and one
\* above the limit.
BatchSizes == (0..Budget) \cup {MaxLocations + 1}

HandlerStep == \E h \in Handlers :
  \/ \E m \in BatchSizes : BatchBegin(h, m)
  \/ BatchDispatch(h)
  \/ BatchCollect(h)
  \/ BatchRespond(h)
  \/ SingleDispatch(h)
  \/ SingleCollect(h)
  \/ SingleRespond(h)

StopStep == StopPut \/ StopJoin \/ StopReturn

\* The serving phase: the pool is started and the lifespan has not begun
\* its shutdown.
ServeWorkerStep == \E w \in Workers :
  \/ WorkerInit(w)
  \/ WorkerGet(w)
  \/ WorkerRunOk(w)
  \/ WorkerRunFail(w)

ServeNext == Start \/ ServeWorkerStep \/ HandlerStep

ServeSpec == Init /\ [][ServeNext]_vars

\* Every worker process that can take a step eventually takes one: the
\* operating system schedules it, and an analysis returns or raises.
FairServeSpec == ServeSpec /\ WF_vars(ServeWorkerStep)

\* The whole life of the application, shutdown included.
Next == Start \/ StopBegin \/ StopStep \/ WorkerStep \/ HandlerStep

Spec == Init /\ [][Next]_vars

\* As above, and the API process goes on executing a stop() it has begun.
FairSpec == Spec /\ WF_vars(WorkerStep) /\ WF_vars(StopStep)

\* The life of a pool that is started and stopped without any request.
IdleWorkerStep == \E w \in Workers :
  \/ WorkerInit(w)
  \/ WorkerGet(w)
  \/ WorkerCleanup(w)

IdleNext == Start \/ StopBegin \/ StopStep \/ IdleWorkerStep

IdleSpec == Init /\ [][IdleNext]_vars

FairIdleSpec == IdleSpec /\ WF_vars(IdleWorkerStep) /\ WF_vars(StopStep)

\* The life of a pool object whose start() and stop() are called in any
\* order a single thread can call them, without any request.
PoolWorkerStep == \E w \in DOMAIN wstate :
  \/ WorkerInit(w)
  \/ WorkerGet(w)
  \/ WorkerCleanup(w)

RestartNext ==
  \/ Start
  \/ StartAgain
  \/ StopBegin
  \/ StopStep
  \/ PoolWorkerStep

RestartSpec == Init /\ [][RestartNext]_vars

\* The serving phase with worker processes that may die.
FaultServeNext == ServeNext \/ FaultStep

FaultServeSpec == Init /\ [][FaultServeNext]_vars

\* The whole life of the application with worker processes that may die
\* and a cleanup that may fail.
FaultNext ==
  \/ Next
  \/ FaultStep
  \/ \E w \in Workers : WorkerCleanupFail(w)

FaultSpec == Init /\ [][FaultNext]_vars

\* The serving phase with analyses that may return no value.
NoneServeNext == ServeNext \/ \E w \in Workers : WorkerRunNone(w)

NoneServeSpec == Init /\ [][NoneServeNext]_vars

\* The serving phase with request handlers that may fail in their try
\* block.
AbortStep == \E h \in Handlers : BatchAbort(h) \/ SingleAbort(h)

AbortServeNext == ServeNext \/ AbortStep

AbortServeSpec == Init /\ [][AbortServeNext]_vars

\* INIT fails in a worker while another worker of the pool has not failed.
LiveInitFail == \E w \in Workers :
  /\ \E v \in Workers \ {w} : wstate[v] # "FAILED"
  /\ \E part \in BOOLEAN : WorkerInitFail(w, part)

\* The steps of a request handler after its entry: the event loop resumes a
\* handler that can go on, and a get_result blocked in its executor thread
\* returns when the result queue has an item.
HandlerProgress == \E h \in Handlers :
  \/ BatchDispatch(h)
  \/ BatchCollect(h)
  \/ BatchRespond(h)
  \/ SingleCollect(h)
  \/ SingleRespond(h)

\* The serving phase of a pool in which no worker dies with a job and at
\* least one worker completes INIT.
LiveServeNext == ServeNext \/ LiveInitFail

LiveServeSpec == Init /\ [][LiveServeNext]_vars

\* As above; every worker that can take a step eventually takes one (an
\* analysis returns or raises), and so does every handler.
FairLiveServeSpec ==
  LiveServeSpec /\ WF_vars(ServeWorkerStep) /\ WF_vars(HandlerProgress)

\* The whole life of an application that serves single-job requests only,
\* with worker processes that may die and a cleanup that may fail.
SingleStep == \E h \in Handlers :
  \/ SingleDispatch(h)
  \/ SingleCollect(h)
  \/ SingleRespond(h)

DegradedNext ==
  \/ Start
  \/ StopBegin
  \/ StopStep
  \/ WorkerStep
  \/ FaultStep
  \/ \E w \in Workers : WorkerCleanupFail(w)
  \/ SingleStep

DegradedSpec == Init /\ [][DegradedNext]_vars

\* As above; a worker process that can take a step eventually takes one or
\* dies, and the API process goes on executing a stop() it has begun.
FairDegradedSpec == DegradedSpec /\ WF_vars(WorkerStep) /\ WF_vars(StopStep)

\* The serving phase with worker processes that may die and with the health
\* endpoints polled at any time. The pool section of a poll is a few
\* statements without an await: it is answered before the next step of a
\* request handler or of a worker.
HealthNext == (NoPoll /\ FaultServeNext) \/ PollStep

HealthSpec == Init /\ [][HealthNext]_vars

\* ================================================================ claims

\* Every result handler h retrieved is the result of a job h dispatched.
OwnResults(h) ==
  \A i \in 1..Len(recv[h]) : Owner(recv[h][i].location) = h

\* Every result handler h retrieved is a success.
AllSucceeded(h) == \A i \in 1..Len(recv[h]) : recv[h][i].ok

\* The indices of the failures handler h retrieved.
FailedIdx(h) == {recv[h][i].idx : i \in {j \in 1..Len(recv[h]) : ~recv[h][j].ok}}

RECURSIVE FailureTexts(_)
\* The messages of the failures in a sequence of retrieved results, in
\* retrieval order.
FailureTexts(q) ==
  IF q = <<>> THEN <<>>
  ELSE IF Head(q).ok THEN FailureTexts(Tail(q))
  ELSE <<Head(q).error>> \o FailureTexts(Tail(q))

BatchDone(h) == hkind[h] = "batch" /\ hpc[h] = "done"
SingleDone(h) == hkind[h] = "single" /\ hpc[h] = "done"

\* ----------------------------------------------------------------- C1
\* C1: with no worker crash, the results pushed to the result channel never
\* outnumber the jobs dispatched, and once M jobs have been dispatched to
\* the started pool, M results are eventually pushed (unless more jobs are
\* dispatched first, which are then awaited in turn).
C1_ExactlyMResults ==
  /\ [](nPushed <= nDispatched)
  /\ \A m \in 0..MaxJobs :
       (nDispatched = m /\ phase = "started")
         ~> (nPushed = m \/ nDispatched > m)

\* All the jobs the bound allows were dispatched, executed and answered.
C1_Witness ==
  /\ nDispatched = MaxJobs
  /\ nPushed = MaxJobs
  /\ job_queue = <<>>
  /\ \A w \in Workers : wstate[w] = "READY"

\* ----------------------------------------------------------------- C2
\* Every result pushed so far: those waiting in the result channel and
\* those some handler retrieved.
PushedResults ==
  {result_queue[i] : i \in 1..Len(result_queue)}
    \cup UNION {{recv[g][i] : i \in 1..Len(recv[g])} : g \in Handlers}

\* The job handler h dispatches at index i.
JobOf(h, i) == JobMsg(i, Loc(h, i))

\* All the jobs of handler h were executed and succeeded.
OwnJobsSucceeded(h) ==
  \A i \in 0..(hM[h] - 1) : SuccessMsg(JobOf(h, i)) \in PushedResults

\* All the jobs of handler h were executed.
OwnJobsFinished(h) ==
  \A i \in 0..(hM[h] - 1) :
    \/ SuccessMsg(JobOf(h, i)) \in PushedResults
    \/ FailureMsg(JobOf(h, i)) \in PushedResults

\* The indices of the jobs of handler h that failed.
FailedJobs(h) ==
  {i \in 0..(hM[h] - 1) : FailureMsg(JobOf(h, i)) \in PushedResults}

\* C2: a batch whose M jobs all succeeded answers with
\* [result(0), ..., result(M-1)], whatever the order in which results
\* arrived on the result channel.
C2_SuccessesInSubmissionOrder ==
  \A h \in Handlers :
    (BatchDone(h) /\ OwnJobsSucceeded(h))
      => response[h].result = [i \in 1..hM[h] |-> Analyze(Loc(h, i - 1))]

\* C2 for the batches that retrieved their own M results: these answer
\* with [result(0), ..., result(M-1)] for every order of arrival.
C2_OrderedGivenOwnResults ==
  \A h \in Handlers :
    (BatchDone(h) /\ OwnResults(h) /\ AllSucceeded(h))
      => response[h].result = [i \in 1..hM[h] |-> Analyze(Loc(h, i - 1))]

\* A batch of three whose results arrived in the order 2, 0, 1.
C2_ArrivalTwoZeroOne ==
  \E h \in Handlers :
    /\ BatchDone(h)
    /\ hM[h] = 3
    /\ OwnResults(h)
    /\ AllSucceeded(h)
    /\ [i \in 1..Len(recv[h]) |-> recv[h][i].idx] = <<2, 0, 1>>
    /\ response[h].result =
         <<Analyze(Loc(h, 0)), Analyze(Loc(h, 1)), Analyze(Loc(h, 2))>>

\* ----------------------------------------------------------------- C3
\* C3: a batch is never aborted by failing jobs: it answers with a batch
\* response and, its M jobs executed and the indices F failed, reports
\* completed = M - |F|, the results of the indices outside F in ascending
\* order, and the |F| failure messages of its jobs.
C3_PartialFailure ==
  \A h \in Handlers :
    BatchDone(h) =>
      /\ response[h].status = 200
      /\ response[h].locations_count = hM[h]
      /\ OwnJobsFinished(h) =>
           LET F == FailedJobs(h)
               good == SortedSeq((0..(hM[h] - 1)) \ F)
           IN  /\ response[h].completed = hM[h] - Cardinality(F)
               /\ response[h].result =
                    [i \in 1..Len(good) |-> Analyze(Loc(h, good[i]))]
               /\ Len(errors[h]) = Cardinality(F)
               /\ \A k \in 1..Len(errors[h]) :
                    errors[h][k] \in {ErrMsg(Loc(h, i)) : i \in F}
               /\ response[h].error = Join(errors[h])

\* C3 for the batches that retrieved their own M results, of which the
\* indices F failed: completed = M - |F|, the success list holds the
\* results of the indices outside F in ascending order, and the error text
\* is the join of the |F| failure messages.
C3_PartialFailureGivenOwnResults ==
  \A h \in Handlers :
    (BatchDone(h) /\ OwnResults(h)) =>
      LET F == FailedIdx(h)
          good == SortedSeq((0..(hM[h] - 1)) \ F)
      IN  /\ response[h].status = 200
          /\ response[h].completed = hM[h] - Cardinality(F)
          /\ response[h].result =
               [i \in 1..Len(good) |-> Analyze(Loc(h, good[i]))]
          /\ Len(FailureTexts(recv[h])) = Cardinality(F)
          /\ response[h].error = Join(FailureTexts(recv[h]))

\* Three jobs of which the one at index 1 failed.
C3_OneOfThreeFailed ==
  \E h \in Handlers :
    /\ BatchDone(h)
    /\ hM[h] = 3
    /\ OwnResults(h)
    /\ FailedIdx(h) = {1}
    /\ response[h].completed = 2
    /\ response[h].result = <<Analyze(Loc(h, 0)), Analyze(Loc(h, 2))>>
    /\ response[h].error = ErrMsg(Loc(h, 1))

\* ----------------------------------------------------------------- C4
\* C4: the step in which a worker's job fails pushes a Failure carrying the
\* job's index and payload to the result channel and leaves that worker
\* READY (its process goes on), and changes neither another worker nor
\* the job channel.
C4_FailureKeepsWorker ==
  [][\A w \in Workers :
       (wstate[w] = "RUN" /\ nPushed' = nPushed + 1 /\ wstate'[w] # "RUN"
          /\ ~Head(Reversed(result_queue')).ok)
         => /\ result_queue' = Append(result_queue, FailureMsg(wjob[w]))
            /\ Head(Reversed(result_queue')).idx = wjob[w].idx
            /\ wstate'[w] = "READY"
            /\ job_queue' = job_queue
            /\ \A v \in Workers \ {w} :
                 wstate'[v] = wstate[v] /\ wjob'[v] = wjob[v]]_vars

\* One worker alone (the others still start up) failed the job at index 0
\* and then processed the job at index 1 successfully.
C4_Witness ==
  \E w \in Workers :
    /\ \A v \in Workers \ {w} : wstate[v] = "INIT"
    /\ wstate[w] = "READY"
    /\ result_queue = <<FailureMsg(JobMsg(0, Loc(1, 0))),
                        SuccessMsg(JobMsg(1, Loc(1, 1)))>>

\* ----------------------------------------------------------------- C5
\* C5: every result a handler retrieves is the result of a job that the
\* same handler dispatched.
C5_OnlyOwnResults == \A h \in Handlers : OwnResults(h)

\* ----------------------------------------------------------------- C6
\* C6: a finished single-job call dispatched one job at index 0, retrieved
\* once, and answers as a batch of one does: a Success yields the job's
\* result, a Failure is reported with the job's failure message.
C6_SingleIsBatchOfOne ==
  \A h \in Handlers :
    SingleDone(h) =>
      LET res == recv[h][1]
      IN  /\ sent[h] = 1
          /\ got[h] = 1
          /\ res.ok =>
               /\ response[h].status = 200
               /\ response[h].result = res.result
          /\ ~res.ok =>
               \/ /\ response[h].status = 200
                  /\ response[h].error = res.error
               \/ /\ response[h].status = 500
                  /\ response[h].detail = "Processing-one failed: " \o res.error

\* ----------------------------------------------------------------- C7
\* C7: a batch of M jobs retrieves only after its M dispatches, never more
\* than M times, and answers only after the M-th retrieval, whatever the
\* depth of the result channel.
C7_ExactlyMRetrievals ==
  \A h \in Handlers :
    hkind[h] = "batch" =>
      /\ got[h] <= hM[h]
      /\ got[h] > 0 => sent[h] = hM[h]
      /\ hpc[h] = "done" => got[h] = hM[h]

\* A batch answered after its M retrievals while the result channel still
\* held a result.
C7_Witness ==
  \E h \in Handlers :
    /\ BatchDone(h)
    /\ hM[h] >= 2
    /\ got[h] = hM[h]
    /\ result_queue # <<>>

\* ----------------------------------------------------------------- C8
\* C8 as stated: a batch of no jobs enqueues nothing, retrieves nothing and
\* answers with the empty batch response.
C8_EmptyBatchEmptyResponse ==
  \A h \in Handlers :
    (hkind[h] = "batch" /\ hpc[h] # "idle" /\ hM[h] = 0)
      => /\ sent[h] = 0
         /\ got[h] = 0
         /\ response[h] = BatchResponse(0, <<>>, <<>>)

\* C8 amended: a batch of no jobs enqueues nothing, retrieves nothing and
\* is rejected at once with the error 400 "No locations provided".
C8_EmptyBatchRejected ==
  \A h \in Handlers :
    (hkind[h] = "batch" /\ hpc[h] # "idle" /\ hM[h] = 0)
      => /\ hpc[h] = "rejected"
         /\ sent[h] = 0
         /\ got[h] = 0
         /\ response[h] = HttpError(400, "No locations provided")

\* An empty batch was submitted while the channels were idle.
C8_Witness ==
  \E h \in Handlers :
    /\ hkind[h] = "batch"
    /\ hpc[h] = "rejected"
    /\ hM[h] = 0
    /\ response[h].status = 400
    /\ job_queue = <<>>
    /\ result_queue = <<>>

\* ----------------------------------------------------------------- C9
\* C9: stop() enqueues exactly num_workers sentinels, no worker dequeues
\* more than one, and when stop() has returned every worker has dequeued
\* exactly one and exited, and no sentinel is left in the job channel.
C9_OneSentinelPerWorker ==
  /\ stopPut <= num_workers
  /\ \A w \in Workers : stopsTaken[w] <= 1
  /\ phase = "stopped" =>
       /\ stopPut = num_workers
       /\ \A w \in Workers : wstate[w] = "EXITED" /\ stopsTaken[w] = 1
       /\ \A i \in 1..Len(job_queue) : job_queue[i].kind # "STOP"

\* stop() returned on a pool that had executed jobs.
C9_Witness ==
  /\ phase = "stopped"
  /\ nPushed >= 2
  /\ \A w \in Workers : wstate[w] = "EXITED"

\* ---------------------------------------------------------------- C10
\* C10: stop() on a started pool on which no job was ever dispatched
\* returns.
C10_IdleStopReturns ==
  (phase = "stopping" /\ nDispatched = 0) ~> (phase = "stopped")

\* stop() returned on a pool that never got a job.
C10_Witness ==
  /\ phase = "stopped"
  /\ nDispatched = 0
  /\ \A w \in Workers : wstate[w] = "EXITED"

C12_InitFailureAbortsStart ==
  /\ nPushed <= nDispatched
  /\ (\E w \in Workers : wstate[w] = "FAILED")
       => ~(phase = "started" /\ Alive < num_workers)

\* ---------------------------------------------------------------- C13
\* C13: the status the health monitor reports for the pool is healthy
\* exactly when the live worker processes number num_workers, and the pool
\* is classified as degraded otherwise; the reported status is never
\* healthy while a worker process is dead.
C13_HealthyIffAllAlive ==
  health # NoHealth =>
    /\ health.workers_alive = Alive
    /\ (health.status = "healthy") <=> (Alive = num_workers)
    /\ (Alive # num_workers) => health.worker_pool_status = "degraded"
    /\ (\E w \in Workers : Ended(w)) => health.status # "healthy"

\* C13 for the field worker_pool_status alone: it is "ok" exactly when the
\* live worker processes number num_workers and "degraded" otherwise, and
\* the readiness probe answers "ready" in exactly the same states.
C13_PoolStatusField ==
  /\ health # NoHealth =>
       /\ health.workers_alive = Alive
       /\ health.workers_expected = num_workers
       /\ (health.worker_pool_status = "ok") <=> (Alive = num_workers)
       /\ (health.worker_pool_status = "degraded") <=> (Alive # num_workers)
  /\ ready # NoHealth =>
       (ready.status = "ready") <=> (Alive = num_workers)

\* A poll answered "degraded" with one worker dead in INIT and one killed
\* in RUN.
C13_DegradedPolled ==
  /\ health # NoHealth
  /\ health.worker_pool_status = "degraded"
  /\ health.workers_alive = num_workers - 2
  /\ \E w \in Workers : wstate[w] = "FAILED"
  /\ \E w \in Workers : wstate[w] = "KILLED"

\* ---------------------------------------------------------------- C14
\* C14: the request sizes let through are exactly 1..20; a batch of more
\* than 20 payloads is rejected with an error, having enqueued no job and
\* retrieved nothing, the step that rejects it leaves both channels as
\* they were, and every batch that dispatches or collects has 1 <= M <= 20.
C14_OversizeRejected ==
  /\ [](\A m \in 0..(MaxLocations + 2) :
          (~EmptyBatch(m) /\ ~OversizeBatch(m)) <=> (1 <= m /\ m <= 20))
  /\ [](\A h \in Handlers :
          /\ (hkind[h] = "batch" /\ hpc[h] # "idle" /\ hM[h] > 20)
               => /\ hpc[h] = "rejected"
                  /\ sent[h] = 0
                  /\ got[h] = 0
                  /\ response[h] = HttpError(400, "Max 20 locations per request")
          /\ (hkind[h] = "batch" /\ hpc[h] \in {"dispatch", "collect", "done"})
               => (1 <= hM[h] /\ hM[h] <= 20))
  /\ [][\A h \in Handlers :
          (hpc[h] = "idle" /\ hpc'[h] = "rejected")
            => UNCHANGED <<job_queue, result_queue, nDispatched>>]_vars

\* A batch of 21 payloads was rejected while another request's job was
\* waiting in the job channel.
C14_Witness ==
  \E h \in Handlers :
    /\ hkind[h] = "batch"
    /\ hpc[h] = "rejected"
    /\ hM[h] = MaxLocations + 1
    /\ response[h].status = 400
    /\ sent[h] = 0
    /\ job_queue # <<>>

\* ---------------------------------------------------------------- C15
\* How often the job with payload loc waits in the job channel.
TimesQueued(loc) ==
  Cardinality({i \in 1..Len(job_queue) :
                 job_queue[i].kind = "job" /\ job_queue[i].location = loc})

\* Workers that dequeued the job with payload loc and have not pushed its
\* result.
TimesHeld(loc) ==
  Cardinality({w \in Workers : wjob[w].kind = "job" /\ wjob[w].location = loc})

\* Results for the job with payload loc, in the result channel or
\* retrieved by a handler.
TimesPushed(loc) ==
  Cardinality({i \in 1..Len(result_queue) : result_queue[i].location = loc})
    + Cardinality({<<g, i>> \in Handlers \X (1..MaxLocations) :
                     i <= Len(recv[g]) /\ recv[g][i].location = loc})

\* C15: every dispatched job is in exactly one place: waiting in the job
\* channel, held by the one worker that dequeued it, or answered by one
\* result, which carries the job's index; a job not dispatched is nowhere.
\* The step in which a worker ends a job, with a result or by dying, puts
\* nothing on the job channel, which grows by dispatches only.
C15_NoRetry ==
  /\ [](\A h \in Handlers : \A i \in 0..MaxJobs :
          LET loc == Loc(h, i)
          IN  /\ TimesQueued(loc) + TimesHeld(loc) + TimesPushed(loc)
                   = (IF i < sent[h] THEN 1 ELSE 0)
              /\ \A k \in 1..Len(job_queue) :
                   (job_queue[k].kind = "job" /\ job_queue[k].location = loc)
                     => job_queue[k].idx = i
              /\ \A w \in Workers :
                   (wjob[w].kind = "job" /\ wjob[w].location = loc)
                     => wjob[w].idx = i
              /\ \A k \in 1..Len(result_queue) :
                   result_queue[k].location = loc => result_queue[k].idx = i
              /\ \A g \in Handlers : \A k \in 1..Len(recv[g]) :
                   recv[g][k].location = loc => recv[g][k].idx = i)
  /\ [][/\ \A w \in Workers :
            (wstate[w] = "RUN" /\ wstate'[w] # "RUN") => job_queue' = job_queue
        /\ Len(job_queue') > Len(job_queue)
             => /\ nDispatched' = nDispatched + 1
                /\ nPushed' = nPushed]_vars

\* A job failed, its failure was retrieved, one worker died with its job,
\* and the job channel is empty: neither job is tried again.
C15_Witness ==
  /\ job_queue = <<>>
  /\ \E h \in Handlers : \E k \in 1..Len(recv[h]) : ~recv[h][k].ok
  /\ \E w \in Workers : wstate[w] = "KILLED"
  /\ \A w \in Workers : wstate[w] \in {"READY", "KILLED"}

\* ---------------------------------------------------------------- C16
\* C16: a worker acquires a session at most once and releases it at most
\* once, and whenever its process has ended, on whatever path, a session
\* it had acquired, wholly or in part, has been released exactly once.
C16_ReleasedOnEveryExit ==
  \A w \in Workers :
    /\ acquired[w] <= 1
    /\ released[w] <= acquired[w]
    /\ (Ended(w) /\ acquired[w] = 1) => released[w] = 1

\* C16 on the one path that reaches the cleanup and completes it: a worker
\* that ended after a sentinel, with no failure, has released its session
\* exactly once.
C16_ReleasedAfterSentinel ==
  \A w \in Workers :
    /\ acquired[w] <= 1
    /\ released[w] <= acquired[w]
    /\ wstate[w] = "EXITED" => (acquired[w] = 1 /\ released[w] = 1)
    /\ released[w] = 1 => wstate[w] = "EXITED"

\* Every worker ended after a sentinel, some having executed jobs.
C16_AllReleased ==
  /\ nPushed >= 1
  /\ \A w \in Workers : wstate[w] = "EXITED" /\ released[w] = 1

\* ---------------------------------------------------------------- C17
\* C17: once a worker process has died while executing a job, no result
\* for that job exists anywhere, then or later; and if the job belongs to
\* a batch that is the only request there has been, no result with that
\* index exists, the batch has made fewer than M retrievals, its handler
\* is still in the collect loop and no response has been produced.
C17_DeathBlocksBatch ==
  \A w \in Workers :
    wstate[w] = "KILLED" =>
      /\ wjob[w].kind = "job"
      /\ TimesPushed(wjob[w].location) = 0
      /\ TimesQueued(wjob[w].location) = 0
      /\ \A h \in Handlers :
           (/\ hkind[h] = "batch"
            /\ Owner(wjob[w].location) = h
            /\ \A g \in Handlers \ {h} : hpc[g] = "idle")
             => /\ \A r \in PushedResults : r.idx # wjob[w].idx
                /\ got[h] < hM[h]
                /\ hpc[h] \in {"dispatch", "collect"}
                /\ response[h] = NoResponse

\* The only request is a batch of at least two jobs; one worker died
\* executing one of them, every other result was retrieved, both channels
\* are empty and the other workers wait for jobs: the handler is blocked
\* in its last retrieval.
C17_Witness ==
  \E h \in Handlers : \E w \in Workers :
    /\ \A g \in Handlers \ {h} : hpc[g] = "idle"
    /\ hkind[h] = "batch"
    /\ hM[h] >= 2
    /\ hpc[h] = "collect"
    /\ got[h] = hM[h] - 1
    /\ wstate[w] = "KILLED"
    /\ \A v \in Workers \ {w} : wstate[v] = "READY"
    /\ job_queue = <<>>
    /\ result_queue = <<>>

\* ---------------------------------------------------------------- C18
\* C18: a step in which the health endpoint or the readiness endpoint
\* answers changes nothing but the answer: the worker handles, the job
\* channel and the result channel (contents and order), the workers and
\* the request handlers are as before; and what the health endpoint
\* reports agrees with the pool it left behind.
C18_PollReadOnly ==
  /\ [][(health' # health \/ ready' # ready)
         => UNCHANGED <<processes, job_queue, result_queue, poolVars,
                        workerVars, handlerVars, histVars>>]_vars
  /\ [](health # NoHealth
          => /\ health.workers_expected = num_workers
             /\ health.workers_alive = Alive
             /\ health.job_queue_size = Len(job_queue)
             /\ health.result_queue_size = Len(result_queue))

\* The health endpoint answered in the middle of the traffic: a job
\* waiting, a worker executing another, a result waiting, a handler in its
\* collect loop.
C18_Witness ==
  /\ health # NoHealth
  /\ health.job_queue_size >= 1
  /\ health.result_queue_size >= 1
  /\ job_queue # <<>>
  /\ result_queue # <<>>
  /\ \E w \in Workers : wstate[w] = "RUN"
  /\ \E h \in Handlers : hpc[h] = "collect"

\* ---------------------------------------------------------------- C19
\* The edges of the worker's state machine, with the start of the process
\* (into INIT) and its end after the cleanup (out of SHUTDOWN).
LoopEdges ==
  {<<"NONE", "INIT">>, <<"INIT", "READY">>, <<"READY", "RUN">>,
   <<"RUN", "READY">>, <<"READY", "SHUTDOWN">>, <<"SHUTDOWN", "EXITED">>}

\* The death of the process: out of INIT when INIT raises, out of RUN when
\* the process dies in the analysis.
DeathEdges == {<<"INIT", "FAILED">>, <<"RUN", "KILLED">>}

\* C19: a worker changes state only along INIT->READY, READY->RUN,
\* RUN->READY and READY->SHUTDOWN (besides the start and the end of its
\* process): never from RUN to SHUTDOWN; it takes an item off the job
\* channel only in READY, a job taking it to RUN and a sentinel to
\* SHUTDOWN; and from SHUTDOWN it only ends, holding no job.
C19_WorkerStateMachine ==
  [][/\ \A w \in Workers :
          /\ wstate'[w] # wstate[w]
               => <<wstate[w], wstate'[w]>> \in LoopEdges \cup DeathEdges
          /\ ~(wstate[w] = "RUN" /\ wstate'[w] = "SHUTDOWN")
          /\ wstate[w] \in {"SHUTDOWN", "EXITED"}
               => /\ wstate'[w] \in {"SHUTDOWN", "EXITED"}
                  /\ wjob'[w] = NoJob
     /\ Len(job_queue') < Len(job_queue)
          => /\ job_queue' = Tail(job_queue)
             /\ \E w \in Workers :
                  /\ wstate[w] = "READY"
                  /\ wstate'[w] = (IF Head(job_queue) = StopMsg
                                   THEN "SHUTDOWN" ELSE "RUN")
                  /\ \A v \in Workers \ {w} :
                       wstate'[v] = wstate[v] /\ wjob'[v] = wjob[v]]_vars

\* One worker went all the way INIT, READY, RUN, READY, SHUTDOWN and ended
\* while the others were still in INIT.
C19_Witness ==
  \E w \in Workers :
    /\ wstate[w] = "EXITED"
    /\ stopsTaken[w] = 1
    /\ nPushed >= 1
    /\ \A v \in Workers \ {w} : wstate[v] = "INIT"

\* ---------------------------------------------------------------- C20
\* Jobs waiting in the job channel.
JobsQueued ==
  Cardinality({i \in 1..Len(job_queue) : job_queue[i].kind = "job"})

\* Workers executing a job.
Running == {w \in Workers : wstate[w] = "RUN"}

\* Workers whose process died with the job it held.
Killed == {w \in Workers : wstate[w] = "KILLED"}

\* C20: a worker holds a job exactly while it is in RUN (or died there),
\* no job is held by two workers, and every job taken off the job channel
\* and not answered is held by one worker, so the jobs in execution never
\* outnumber the live workers; a worker has at most one live session, has
\* one whenever it waits for or executes a job, and never acquires a second
\* one; and a worker takes an item off the job channel only when it holds
\* no job, having pushed the result of the job it held.
C20_OneJobOneSession ==
  /\ [](/\ \A w \in Workers :
            /\ (wjob[w].kind = "job") <=> (wstate[w] \in {"RUN", "KILLED"})
            /\ acquired[w] <= 1
            /\ released[w] <= acquired[w]
            /\ wstate[w] \in {"READY", "RUN", "SHUTDOWN"}
                 => acquired[w] - released[w] = 1
            /\ wstate[w] \in {"NONE", "INIT"} => acquired[w] = 0
            /\ \A v \in Workers \ {w} :
                 wjob[w].kind = "job" => wjob[v] # wjob[w]
        /\ nDispatched - JobsQueued - nPushed
             = Cardinality(Running) + Cardinality(Killed)
        /\ Cardinality(Running) <= Alive)
  /\ [][\A w \in Workers :
          /\ (wstate[w] # "RUN" /\ wstate'[w] = "RUN")
               => /\ wjob[w] = NoJob
                  /\ wjob'[w] = Head(job_queue)
                  /\ job_queue' = Tail(job_queue)
          /\ (wstate[w] = "RUN" /\ wstate'[w] = "READY")
               => /\ nPushed' = nPushed + 1
                  /\ Len(result_queue') = Len(result_queue) + 1
                  /\ result_queue'[Len(result_queue')].idx = wjob[w].idx
                  /\ result_queue'[Len(result_queue')].location
                       = wjob[w].location
                  /\ wjob'[w] = NoJob
                  /\ job_queue' = job_queue]_vars

\* Every worker executes a job at once, each with its own session and a
\* job of its own.
C20_Witness ==
  /\ \A w \in Workers : wstate[w] = "RUN" /\ acquired[w] - released[w] = 1
  /\ Cardinality({wjob[w] : w \in Workers}) = num_workers
  /\ JobsQueued = 0

\* ---------------------------------------------------------------- C21
\* Sentinels waiting in the job channel.
SentinelsQueued ==
  Cardinality({i \in 1..Len(job_queue) : job_queue[i] = StopMsg})

\* C21: a worker that executes a job while sentinels wait in the job
\* channel leaves the sentinels alone, ends the job by pushing its result
\* and only then, from READY and holding no job, takes a sentinel; a worker
\* that has taken a sentinel has pushed a result for every job it took;
\* and with stop() under way a worker in RUN does get back to READY.
C21_StopDoesNotPreempt ==
  /\ [][\A w \in Workers :
          /\ (wstate[w] = "RUN" /\ wstate'[w] # "RUN")
               => /\ wstate'[w] = "READY"
                  /\ stopsTaken'[w] = stopsTaken[w]
                  /\ job_queue' = job_queue
                  /\ result_queue' \in {Append(result_queue, SuccessMsg(wjob[w])),
                                        Append(result_queue, FailureMsg(wjob[w]))}
          /\ stopsTaken'[w] # stopsTaken[w]
               => /\ wstate[w] = "READY"
                  /\ wjob[w] = NoJob
                  /\ wstate'[w] = "SHUTDOWN"]_vars
  /\ [](\A w \in Workers :
          stopsTaken[w] > 0 => (wjob[w] = NoJob /\ wstate[w] # "RUN"))
  /\ [](nDispatched - JobsQueued - nPushed = Cardinality(Running))
  /\ \A w \in Workers :
       (phase = "stopping" /\ wstate[w] = "RUN")
         ~> (wstate[w] = "READY" /\ stopsTaken[w] = 0)

\* stop() has enqueued all its sentinels, every other worker has taken one
\* and ended, and one worker still executes its job, a sentinel waiting for
\* it in the job channel.
C21_Witness ==
  \E w \in Workers :
    /\ phase = "stopping"
    /\ stopPut = num_workers
    /\ wstate[w] = "RUN"
    /\ stopsTaken[w] = 0
    /\ job_queue = <<StopMsg>>
    /\ \A v \in Workers \ {w} : wstate[v] = "EXITED"

\* ---------------------------------------------------------------- C22
\* The sentinels the workers have taken off the job channel.
SentinelsTaken ==
  Cardinality({w \in Workers : stopsTaken[w] > 0})

\* C22: in the job channel no job stands behind a sentinel, so no sentinel
\* is dequeued while a job waits; and when stop() has returned the job
\* channel holds no job and every job that was dispatched has exactly one
\* result, in the result channel or retrieved.
C22_JobsBeforeSentinels ==
  /\ \A i \in 1..Len(job_queue) : \A k \in 1..Len(job_queue) :
       (i < k /\ job_queue[i] = StopMsg) => job_queue[k] = StopMsg
  /\ SentinelsTaken > 0 => JobsQueued = 0
  /\ phase = "stopped" =>
       /\ JobsQueued = 0
       /\ nPushed = nDispatched
       /\ \A h \in Handlers : \A i \in 0..MaxJobs :
            TimesPushed(Loc(h, i)) = (IF i < sent[h] THEN 1 ELSE 0)

\* stop() returned; it had been called while jobs were still waiting in
\* the job channel or in execution, and their results are in the result
\* channel, the handlers still before their last retrieval.
C22_Witness ==
  /\ phase = "stopped"
  /\ nDispatched = MaxJobs
  /\ Len(result_queue) = MaxJobs
  /\ job_queue = <<>>

\* ---------------------------------------------------------------- C23
\* Only one worker process serves the channels: every other one is still
\* in INIT and has taken nothing off the job channel.
Solo == \E w \in Workers : \A v \in Workers \ {w} : wstate[v] = "INIT"

\* The results in q stand in the order in which their jobs were
\* dispatched. (Requests arrive in the order of their handlers' numbers
\* and a dispatch loop is not interleaved with another, so payloads are
\* dispatched in ascending order of Loc.)
InSubmissionOrder(q) ==
  \A i \in 1..Len(q) : \A k \in 1..Len(q) :
    i < k => q[i].location < q[k].location

\* C23: get_result() returns the oldest result of the result channel and
\* nothing when the channel is empty, and a push appends behind the
\* results already there; and while a single worker serves, results are
\* pushed and retrieved in the order in which their jobs were dispatched.
C23_CompletionOrder ==
  /\ [][/\ \A h \in Handlers :
            Len(recv'[h]) > Len(recv[h])
              => /\ result_queue # <<>>
                 /\ recv'[h] = Append(recv[h], Head(result_queue))
                 /\ result_queue' = Tail(result_queue)
        /\ Len(result_queue') > Len(result_queue)
             => /\ Len(result_queue') = Len(result_queue) + 1
                /\ SubSeq(result_queue', 1, Len(result_queue)) = result_queue
                /\ nPushed' = nPushed + 1]_vars
  /\ [](Solo =>
          /\ InSubmissionOrder(result_queue)
          /\ \A h \in Handlers :
               /\ InSubmissionOrder(recv[h])
               /\ \A i \in 1..Len(recv[h]) : \A k \in 1..Len(result_queue) :
                    recv[h][i].location < result_queue[k].location)

\* With several workers serving, a batch retrieved the result of a later
\* job of its own before that of an earlier one.
C23_Witness ==
  \E h \in Handlers :
    /\ hkind[h] = "batch"
    /\ OwnResults(h)
    /\ Len(recv[h]) >= 2
    /\ recv[h][1].idx > recv[h][2].idx
    /\ ~Solo

\* A single worker served a batch of three: the results were retrieved in
\* the order 0, 1, 2.
C23_SoloBatchOfThree ==
  \E h \in Handlers :
    /\ Solo
    /\ BatchDone(h)
    /\ [i \in 1..Len(recv[h]) |-> recv[h][i].idx] = <<0, 1, 2>>

\* ---------------------------------------------------------------- C24
\* The jobs of handler h waiting in the job channel, in channel order.
QueuedJobsOf(h) ==
  SelectSeq(job_queue,
            LAMBDA j : j.kind = "job" /\ Owner(j.location) = h)

\* C24: the k-th dispatch of a batch enqueues, behind everything in the job
\* channel, the payload at position k of the request under index k,
\* starting at 0, and happens before the batch's first retrieval; a batch
\* dispatches at most M jobs and retrieves only after the M-th; its jobs
\* wait in the job channel in ascending index order, and every index
\* below the number dispatched exists exactly once, as a waiting job, a
\* job in execution or a result.
C24_IndicesInSubmissionOrder ==
  /\ [][\A h \in Handlers :
          (sent'[h] # sent[h] /\ hkind'[h] = "batch")
            => /\ sent[h] < hM[h]
               /\ sent'[h] = sent[h] + 1
               /\ got[h] = 0
               /\ job_queue' = Append(job_queue, JobMsg(sent[h], Loc(h, sent[h])))]_vars
  /\ [](\A h \in Handlers :
          hkind[h] = "batch" =>
            /\ sent[h] <= hM[h]
            /\ got[h] > 0 => sent[h] = hM[h]
            /\ \A i \in 1..Len(QueuedJobsOf(h)) : \A k \in 1..Len(QueuedJobsOf(h)) :
                 i < k => QueuedJobsOf(h)[i].idx < QueuedJobsOf(h)[k].idx
            /\ \A i \in 0..MaxJobs :
                 LET job == JobOf(h, i)
                     queued == Cardinality({k \in 1..Len(job_queue) :
                                              job_queue[k] = job})
                     held == Cardinality({w \in Workers : wjob[w] = job})
                     pushed == Cardinality({r \in PushedResults :
                                              r.idx = i /\ r.location = job.location})
                 IN  /\ queued + held + pushed = (IF i < sent[h] THEN 1 ELSE 0)
                     /\ TimesQueued(job.location) = queued
                     /\ TimesHeld(job.location) = held
                     /\ TimesPushed(job.location) = pushed)

\* A batch of three has dispatched its jobs: they wait in the job channel
\* under the indices 0, 1, 2, and nothing was retrieved yet.
C24_Witness ==
  \E h \in Handlers :
    /\ hkind[h] = "batch"
    /\ hM[h] = 3
    /\ hpc[h] = "collect"
    /\ got[h] = 0
    /\ job_queue = <<JobMsg(0, Loc(h, 0)), JobMsg(1, Loc(h, 1)),
                     JobMsg(2, Loc(h, 2))>>

\* ---------------------------------------------------------------- C25
\* C25: a worker leaves SHUTDOWN only by returning from worker_loop (its
\* process exits; it does not die of an exception), whether or not the
\* release of its session succeeded; a worker in SHUTDOWN eventually has
\* exited; and a stop() that has begun returns.
C25_CleanupFailureIsLogged ==
  /\ [][\A w \in Workers :
          (wstate[w] = "SHUTDOWN" /\ wstate'[w] # "SHUTDOWN")
            => /\ wstate'[w] = "EXITED"
               /\ released'[w] \in {released[w], released[w] + 1}]_vars
  /\ \A w \in Workers : (wstate[w] = "SHUTDOWN") ~> (wstate[w] = "EXITED")
  /\ (phase = "stopping") ~> (phase = "stopped")

\* stop() has returned, and the release failed in one worker (it acquired a
\* session and exited without releasing it) and succeeded in another.
C25_Witness ==
  /\ phase = "stopped"
  /\ \E w \in Workers :
       wstate[w] = "EXITED" /\ acquired[w] = 1 /\ released[w] = 0
  /\ \E w \in Workers :
       wstate[w] = "EXITED" /\ acquired[w] = 1 /\ released[w] = 1

\* ---------------------------------------------------------------- C26
\* C26: stop() joins the processes in the order of the pool's list and
\* passes a process only once it has ended, so it has not passed any
\* process that is alive, and it has returned only when every sentinel was
\* enqueued and no process of the pool is alive. As long as a worker stays
\* alive (its job in execution does not complete), stop() is held at that
\* worker's join or before it, and no step of stop() is possible while it
\* waits at that join.
C26_StopWaitsForEveryWorker ==
  /\ [][joined' # joined
          => /\ joined' = joined + 1
             /\ ~IsAlive(processes[joined + 1])]_vars
  /\ [](\A i \in 1..Len(processes) : IsAlive(processes[i]) => joined < i)
  /\ [](phase = "stopped"
          => /\ stopPut = num_workers
             /\ joined = Len(processes)
             /\ Alive = 0)
  /\ [](( /\ phase = "stopping"
           /\ stopPut = num_workers
           /\ joined < Len(processes)
           /\ IsAlive(processes[joined + 1]) )
          => ~ENABLED StopStep)

\* stop() has enqueued every sentinel and joined the first two workers,
\* which have exited; it waits for the third, whose job is in execution.
C26_Witness ==
  /\ phase = "stopping"
  /\ stopPut = num_workers
  /\ joined = 2
  /\ wstate[processes[1]] = "EXITED"
  /\ wstate[processes[2]] = "EXITED"
  /\ wstate[processes[3]] = "RUN"
  /\ ~ENABLED StopStep

\* ---------------------------------------------------------------- C27
RECURSIVE Awaited(_)
\* The results the handlers in S have dispatched a job for and not yet
\* retrieved.
Awaited(S) ==
  IF S = {} THEN 0
  ELSE LET h == CHOOSE x \in S : TRUE
       IN  (sent[h] - got[h]) + Awaited(S \ {h})

\* C27: some worker of the pool never fails; every retrieval the handlers
\* still wait for is matched by a job waiting, a job in execution or a
\* result waiting, and no handler retrieves more than it dispatched; and
\* every handler that was accepted (it is dispatching or collecting)
\* eventually returns its response.
C27_EveryHandlerResponds ==
  /\ [](phase = "started" => \E w \in Workers : wstate[w] # "FAILED")
  /\ [](Awaited(Handlers) = JobsQueued + Cardinality(Running) + Len(result_queue))
  /\ [](\A h \in Handlers : got[h] <= sent[h])
  /\ \A h \in Handlers :
       (hpc[h] \in {"dispatch", "collect"})
         ~> (hpc[h] = "done" /\ response[h] # NoResponse)

\* A batch of two and a single-job request were served at the same time by
\* the one worker that survived INIT: the batch retrieved the result of the
\* single job, and both handlers have returned.
C27_Witness ==
  /\ Cardinality({w \in Workers : wstate[w] = "FAILED"}) = num_workers - 1
  /\ \E h \in Handlers : \E g \in Handlers :
       /\ BatchDone(h)
       /\ hM[h] = 2
       /\ ~OwnResults(h)
       /\ SingleDone(g)

\* ---------------------------------------------------------------- C28
\* C28: in the response of every batch, completed is the length of the
\* success list, and completed plus the number of failure messages is the
\* number of locations submitted.
C28_EveryJobAccounted ==
  \A h \in Handlers :
    BatchDone(h) =>
      /\ response[h].completed = Len(response[h].result)
      /\ response[h].completed + Len(errors[h]) = hM[h]

\* No result handler h retrieved is a success without a value.
NoEmptySuccess(h) ==
  \A i \in 1..Len(recv[h]) : recv[h][i].ok => recv[h][i].result # None

\* What holds instead: completed is always the length of the success
\* list, completed plus the failure messages never exceeds the submitted
\* count, and the two add up to it when the batch retrieved its own
\* results and none of its successes lacks a value.
C28_AccountedGivenOwnNonEmpty ==
  \A h \in Handlers :
    BatchDone(h) =>
      /\ response[h].completed = Len(response[h].result)
      /\ response[h].completed + Len(errors[h]) <= hM[h]
      /\ (OwnResults(h) /\ NoEmptySuccess(h))
           => response[h].completed + Len(errors[h]) = hM[h]

\* A batch of two retrieved its own two results, one of them a success
\* without a value: it reports one completed and no error.
C28_EmptySuccessDropped ==
  \E h \in Handlers :
    /\ BatchDone(h)
    /\ hM[h] = 2
    /\ OwnResults(h)
    /\ ~NoEmptySuccess(h)
    /\ response[h].completed = 1
    /\ errors[h] = <<>>

\* A batch of two retrieved two successes with a value under the same
\* index, one of them of another request: it reports one completed and no
\* error.
C28_IndexCollision ==
  \E h \in Handlers :
    /\ BatchDone(h)
    /\ hM[h] = 2
    /\ NoEmptySuccess(h)
    /\ AllSucceeded(h)
    /\ response[h].completed = 1

\* ---------------------------------------------------------------- C29
\* No request handler is in progress and every worker waits for a job.
Quiescent ==
  /\ phase = "started"
  /\ \A h \in Handlers : hpc[h] \notin {"dispatch", "collect"}
  /\ \A w \in Workers : wstate[w] = "READY"

\* C29: whenever no request handler is in progress and all workers are
\* idle, the job channel and the result channel are both empty, and no
\* handler has retrieved a result of a handler that failed.
C29_ChannelsEmptyWhenIdle ==
  /\ Quiescent => (job_queue = <<>> /\ result_queue = <<>>)
  /\ \A h \in Handlers : \A i \in 1..Len(recv[h]) :
       hpc[Owner(recv[h][i].location)] # "failed"

\* A batch of two failed after its dispatches; its two results wait in the
\* result channel with no handler in progress and every worker idle.
C29_ResultsLeftBehind ==
  /\ Quiescent
  /\ Len(result_queue) = 2
  /\ \E h \in Handlers :
       /\ hkind[h] = "batch"
       /\ hpc[h] = "failed"
       /\ \A i \in 1..2 : Owner(result_queue[i].location) = h

\* A single-job request has answered with the result of a batch that had
\* failed, and its own result is left in the result channel.
C29_StaleResultRetrieved ==
  /\ Quiescent
  /\ \E h \in Handlers : \E g \in Handlers :
       /\ hkind[h] = "batch"
       /\ hpc[h] = "failed"
       /\ SingleDone(g)
       /\ Owner(recv[g][1].location) = h
       /\ \E i \in 1..Len(result_queue) : Owner(result_queue[i].location) = g

\* ---------------------------------------------------------------- C30
\* Workers whose process died, in INIT or with a job.
Dead == {w \in Workers : wstate[w] \in {"FAILED", "KILLED"}}

\* C30: every sentinel enqueued is in the job channel or was taken by one
\* worker, and a dead worker has taken none; a stop() that has begun on a
\* pool with k >= 1 dead workers returns; and when it has returned, every
\* other worker has taken one sentinel and exited, and exactly k sentinels
\* are left in the job channel.
C30_DegradedStopReturns ==
  /\ [](stopPut = SentinelsQueued + SentinelsTaken)
  /\ [](\A w \in Dead : stopsTaken[w] = 0)
  /\ [](phase = "stopped"
          => /\ \A w \in Workers \ Dead :
                  wstate[w] = "EXITED" /\ stopsTaken[w] = 1
             /\ SentinelsQueued = Cardinality(Dead))
  /\ (phase = "stopping" /\ Dead # {}) ~> (phase = "stopped")

\* stop() has returned on a pool of which one worker died in INIT and one
\* with a job: the third worker exited, and two sentinels are left.
C30_Witness ==
  /\ phase = "stopped"
  /\ \E u \in Workers : \E v \in Workers : \E w \in Workers :
       /\ wstate[u] = "FAILED"
       /\ wstate[v] = "KILLED"
       /\ wstate[w] = "EXITED"
       /\ stopsTaken[w] = 1
  /\ job_queue = <<StopMsg, StopMsg>>

\* ---------------------------------------------------------------- C31
\* C31: whenever the pool is started, or a stop() of it is in progress,
\* the list of worker handles holds exactly num_workers handles.
C31_ListHoldsNHandles ==
  phase \in {"started", "stopping"} => Len(processes) = num_workers

\* start() was called twice: the list holds 2 * num_workers handles of live
\* processes, and the health monitor classifies the pool as degraded.
C31_StartedTwice ==
  /\ phase = "started"
  /\ Len(processes) = 2 * num_workers
  /\ Alive = 2 * num_workers
  /\ HealthInfo.worker_pool_status = "degraded"
  /\ ReadyInfo.status = "not_ready"

\* stop() after two start() calls: the num_workers sentinels were all
\* taken, num_workers processes wait for a job that never comes, and stop()
\* waits at the join of one of them with no step left to anyone.
C31_StopBlocked ==
  /\ phase = "stopping"
  /\ stopPut = num_workers
  /\ job_queue = <<>>
  /\ joined < Len(processes)
  /\ wstate[processes[joined + 1]] = "READY"
  /\ Cardinality({w \in DOMAIN wstate : wstate[w] = "READY"}) = num_workers
  /\ Cardinality({w \in DOMAIN wstate : wstate[w] = "EXITED"}) = num_workers
  /\ ~ENABLED RestartNext

\* start() after a stop() that returned: the list holds the num_workers
\* handles of the exited processes and those of the new ones.
C31_StartedAfterStop ==
  /\ phase = "started"
  /\ Len(processes) = 2 * num_workers
  /\ \A i \in 1..num_workers : wstate[processes[i]] = "EXITED"
  /\ Alive = num_workers

\* What holds instead: the list holds num_workers handles for every call
\* of start() so far, at most num_workers sentinels are enqueued by one
\* stop(), and a stop() has returned only when no process is alive.
C31_HandlesPerStart ==
  /\ Len(processes) % num_workers = 0
  /\ Len(processes) <= MaxStarts * num_workers
  /\ (phase = "new") <=> (Len(processes) = 0)
  /\ stopPut <= num_workers
  /\ phase = "stopped" => Alive = 0

\* ---------------------------------------------------------------- C32
\* The checks a readiness answer lists as failed.
FailedChecks(answer) ==
  {answer.failed_checks[i] : i \in 1..Len(answer.failed_checks)}

\* C32: a readiness probe answers from the processes as they are when it
\* is answered; it answers "ready" only if the live worker processes number
\* num_workers, and then no worker has ended; and whenever a worker has
\* ended it answers "not_ready" and lists the worker pool among the failed
\* checks.
C32_ReadyOnlyIfAllAlive ==
  /\ [][(ready = NoHealth /\ ready' # NoHealth)
          => /\ ready'.status = "ready" => Alive = num_workers
             /\ UNCHANGED <<poolVars, queueVars, workerVars>>]_vars
  /\ [](ready # NoHealth =>
          /\ ready.status \in {"ready", "not_ready"}
          /\ ready.status = "ready"
               => /\ Alive = num_workers
                  /\ \A w \in Workers : ~Ended(w)
                  /\ FailedChecks(ready) = {}
          /\ (\E w \in Workers : Ended(w))
               => /\ ready.status = "not_ready"
                  /\ "worker_pool" \in FailedChecks(ready))

\* A readiness probe answered "not_ready", naming the worker pool, with one
\* worker killed with its job and the other two alive.
C32_Witness ==
  /\ ready # NoHealth
  /\ ready.status = "not_ready"
  /\ "worker_pool" \in FailedChecks(ready)
  /\ Cardinality(Killed) = 1
  /\ Alive = num_workers - 1

\* A readiness probe answered "ready" while a job was in execution.
C32_ReadyWhileRunning ==
  /\ ready # NoHealth
  /\ ready.status = "ready"
  /\ Running # {}

====
